---- MODULE Spec2Model ----
(***************************************************************************)
(* A model of the markdown-document MCP server (package mcpmds): the       *)
(* frontmatter extractor, the directory scan, the resource catalog built   *)
(* by New, and the three request handlers.  Byte strings are sequences of  *)
(* one-character strings; offsets are 0-based as in Go and converted to    *)
(* 1-based sequence positions only inside the slicing operators.           *)
(***************************************************************************)
EXTENDS Integers, Sequences, FiniteSets, TLC

VARIABLES fsys, excludeFrontmatter, srv, call

vars == <<fsys, excludeFrontmatter, srv, call>>

\* Largest number of blank lines put in front of a document's first line.
MaxPad == 1

\* Sequencing: the value of `value` is computed once and handed to `rest`,
\* as a Go statement's result is to the statements after it.
Then(value, rest(_)) == CHOOSE r \in {rest(x) : x \in {value}} : TRUE

(***************************************************************************)
(* Byte-string primitives (package bytes / strings).                       *)
(***************************************************************************)
NL == "\n"

\* unicode.IsSpace restricted to the characters the documents use.
Whitespace == {" ", NL}

\* s[i:j] of Go, 0-based, half-open.
Slice(s, i, j) == SubSeq(s, i + 1, j)

\* s[i:] of Go.
SliceFrom(s, i) == SubSeq(s, i + 1, Len(s))

HasPrefix(s, p) == Len(s) >= Len(p) /\ SubSeq(s, 1, Len(p)) = p

\* bytes.Index: the 0-based offset of the first occurrence of sep, or -1.
Index(s, sep) ==
  LET hits == {i \in 0..(Len(s) - Len(sep)) : Slice(s, i, i + Len(sep)) = sep}
  IN IF hits = {} THEN -1 ELSE CHOOSE i \in hits : \A j \in hits : i <= j

RECURSIVE TrimLeft(_)
TrimLeft(s) ==
  IF s # <<>> /\ Head(s) \in Whitespace THEN TrimLeft(Tail(s)) ELSE s

RECURSIVE TrimRight(_)
TrimRight(s) ==
  IF s # <<>> /\ s[Len(s)] \in Whitespace
  THEN TrimRight(SubSeq(s, 1, Len(s) - 1)) ELSE s

\* bytes.TrimSpace
TrimSpace(s) == TrimRight(TrimLeft(s))

(***************************************************************************)
(* Errors.  A Go error value is a record: its class (what errors.Is tells  *)
(* apart) and, where the code builds the message itself, the message.      *)
(***************************************************************************)
Err(kind) == [kind |-> kind, msg |-> <<>>]

NoErr == Err("nil")

ErrNotExist == Err("ErrNotExist")

ErrPermission == Err("ErrPermission")

ErrIsDir == Err("ErrIsDir")

DecodeError == Err("DecodeError")

\* fs.SkipAll, the sentinel the walk callback returns to end the walk.
SkipAll == Err("SkipAll")

(***************************************************************************)
(* Frontmatter values.  A Go map[string]any is a record holding whether    *)
(* the map is nil and its entries (empty for the nil map).                 *)
(***************************************************************************)
EmptyFun == [k \in {} |-> 0]

NilMap == [isNil |-> TRUE, m |-> EmptyFun]

MakeMap(f) == [isNil |-> FALSE, m |-> f]

\* The keys a frontmatter line can define, in the order encoding/json
\* emits them (sorted).
KeyOrder == <<"a", "b">>

FrontmatterKeys == {KeyOrder[i] : i \in DOMAIN KeyOrder}

Chars(s) == {s[i] : i \in DOMAIN s}

\* A block decodes when every line is a key line or blank; a line holding
\* anything else is malformed for either notation.
Decodable(text) == Chars(text) \subseteq (FrontmatterKeys \cup Whitespace)

\* yaml.Unmarshal into a nil map[string]any: an empty document leaves the
\* map nil; integers decode as uint64.
YamlUnmarshal(text) ==
  IF ~Decodable(text) THEN [err |-> DecodeError, v |-> NilMap, by |-> "yaml"]
  ELSE LET ks == Chars(text) \cap FrontmatterKeys
       IN [err |-> NoErr,
           v |-> IF ks = {} THEN NilMap
                 ELSE MakeMap([k \in ks |-> [fam |-> "uint64", n |-> 1]]),
           by |-> "yaml"]

\* toml.Unmarshal into a nil map[string]any: the map is always allocated;
\* integers decode as int64.
TomlUnmarshal(text) ==
  IF ~Decodable(text) THEN [err |-> DecodeError, v |-> NilMap, by |-> "toml"]
  ELSE LET ks == Chars(text) \cap FrontmatterKeys
       IN [err |-> NoErr,
           v |-> MakeMap([k \in ks |-> [fam |-> "int64", n |-> 1]]),
           by |-> "toml"]

YamlDelimiter == <<"-", "-", "-", NL>>

TomlDelimiter == <<"+", "+", "+", NL>>

\* The ordered table of {Unmarshaler, Delimiter} pairs.
unmarshalers == <<[name |-> "yaml", Delimiter |-> YamlDelimiter],
                  [name |-> "toml", Delimiter |-> TomlDelimiter]>>

Unmarshal(u, text) ==
  IF u.name = "yaml" THEN YamlUnmarshal(text) ELSE TomlUnmarshal(text)

\* A faulty variant of DeleteKeys: only the first configured key is deleted.
DeleteKeys_FirstOnly(v, excl) ==
  IF v.isNil \/ excl = <<>> THEN v
  ELSE MakeMap([k \in (DOMAIN v.m) \ {Head(excl)} |-> v.m[k]])

\* delete(frontmatter, key) for every configured key.
DeleteKeys(v, excl) ==
  IF v.isNil THEN v
  ELSE MakeMap([k \in (DOMAIN v.m) \ Chars(excl) |-> v.m[k]])

\* A faulty variant of NormalizeEmpty: the length test is missing.
NormalizeEmpty_Keep(v) == v

\* len(frontmatter) == 0 => nil
NormalizeEmpty(v) == IF DOMAIN v.m = {} THEN NilMap ELSE v

\* What readFrontmatter does with the decoder's result: the error, or the
\* map without the excluded keys, nil when that leaves nothing.  decoders
\* lists the decoders that were run.
Decoded(r, excl) ==
  IF r.err # NoErr THEN [v |-> NilMap, err |-> r.err, decoders |-> <<r.by>>]
  ELSE [v |-> NormalizeEmpty(DeleteKeys(r.v, excl)), err |-> NoErr,
        decoders |-> <<r.by>>]

\* return nil, nil
NoFrontmatter == [v |-> NilMap, err |-> NoErr, decoders |-> <<>>]

\* A faulty variant of tryUnmarshalers: a block that is never closed is
\* taken to run to the end of the content.
RECURSIVE tryUnmarshalers_OpenEnded(_, _, _)
tryUnmarshalers_OpenEnded(content, excl, i) ==
  IF i > Len(unmarshalers) THEN NoFrontmatter
  ELSE IF ~HasPrefix(content, unmarshalers[i].Delimiter)
  THEN tryUnmarshalers_OpenEnded(content, excl, i + 1)
  ELSE
    Then(Index(SliceFrom(content, Len(unmarshalers[i].Delimiter)),
               <<NL>> \o unmarshalers[i].Delimiter), LAMBDA end :
      Decoded(
        Unmarshal(unmarshalers[i],
                  Slice(content, Len(unmarshalers[i].Delimiter),
                        IF end = -1 THEN Len(content)
                        ELSE Len(unmarshalers[i].Delimiter) + end)),
        excl))

\* The loop of readFrontmatter from table entry i on, content already
\* trimmed.  Result: [v |-> the map, err |-> the error, decoders].
RECURSIVE tryUnmarshalers(_, _, _)
tryUnmarshalers(content, excl, i) ==
  IF i > Len(unmarshalers) THEN NoFrontmatter
  ELSE IF ~HasPrefix(content, unmarshalers[i].Delimiter)
  THEN tryUnmarshalers(content, excl, i + 1)
  ELSE
    Then(Index(content, unmarshalers[i].Delimiter), LAMBDA start :
      IF start = -1 THEN tryUnmarshalers(content, excl, i + 1)
      ELSE
        Then(Index(SliceFrom(content, start + Len(unmarshalers[i].Delimiter)),
                   <<NL>> \o unmarshalers[i].Delimiter), LAMBDA end :
          IF end = -1 THEN tryUnmarshalers(content, excl, i + 1)
          ELSE Decoded(
                 Unmarshal(unmarshalers[i],
                           Slice(content,
                                 start + Len(unmarshalers[i].Delimiter),
                                 start + Len(unmarshalers[i].Delimiter) + end)),
                 excl)))

readFrontmatter(content, excl) ==
  Then(TrimSpace(content), LAMBDA trimmed : tryUnmarshalers(trimmed, excl, 1))

\* The panic of a slice expression content[low:high] with high < low.
ErrSliceBounds == Err("slice bounds out of range")

\* The loop of readFrontmatter of package server (src/server.go): the
\* prefix is tested on the trimmed content, the delimiters are located in
\* the content as given, and the block is content[start+len : end] with end
\* counted from start+len.  It has no excluded keys and returns the map as
\* decoded.
RECURSIVE server_tryUnmarshalers(_, _)
server_tryUnmarshalers(content, i) ==
  IF i > Len(unmarshalers) THEN NoFrontmatter
  ELSE IF ~HasPrefix(TrimSpace(content), unmarshalers[i].Delimiter)
  THEN server_tryUnmarshalers(content, i + 1)
  ELSE
    Then(Index(content, unmarshalers[i].Delimiter), LAMBDA start :
      IF start = -1 THEN server_tryUnmarshalers(content, i + 1)
      ELSE
        Then(Index(SliceFrom(content, start + Len(unmarshalers[i].Delimiter)),
                   <<NL>> \o unmarshalers[i].Delimiter), LAMBDA end :
          IF end = -1 THEN server_tryUnmarshalers(content, i + 1)
          ELSE IF end < start + Len(unmarshalers[i].Delimiter)
          THEN [v |-> NilMap, err |-> ErrSliceBounds, decoders |-> <<>>]
          ELSE
            Then(Unmarshal(unmarshalers[i],
                           Slice(content,
                                 start + Len(unmarshalers[i].Delimiter), end)),
                 LAMBDA r :
                   IF r.err # NoErr
                   THEN [v |-> NilMap, err |-> r.err, decoders |-> <<r.by>>]
                   ELSE [v |-> r.v, err |-> NoErr, decoders |-> <<r.by>>])))

server_readFrontmatter(content) == server_tryUnmarshalers(content, 1)

(***************************************************************************)
(* Paths (package path/filepath) and addresses.                            *)
(***************************************************************************)
RECURSIVE LastIndexOf(_, _)
\* The 1-based position of the last occurrence of character c, or 0.
LastIndexOf(s, c) ==
  IF s = <<>> THEN 0
  ELSE IF s[Len(s)] = c THEN Len(s)
  ELSE LastIndexOf(SubSeq(s, 1, Len(s) - 1), c)

\* filepath.Ext: the suffix beginning at the final dot of the final element.
Ext(path) ==
  LET dot == LastIndexOf(path, ".")
      sep == LastIndexOf(path, "/")
  IN IF dot > sep THEN SubSeq(path, dot, Len(path)) ELSE <<>>

RECURSIVE StripTrailingSlashes(_)
StripTrailingSlashes(s) ==
  IF s # <<>> /\ s[Len(s)] = "/"
  THEN StripTrailingSlashes(SubSeq(s, 1, Len(s) - 1)) ELSE s

\* filepath.Base: the last element of the path.
Base(path) ==
  IF path = <<>> THEN <<".">>
  ELSE LET p == StripTrailingSlashes(path)
       IN IF p = <<>> THEN <<"/">>
          ELSE SubSeq(p, LastIndexOf(p, "/") + 1, Len(p))

MdExt == <<".", "m", "d">>

FileScheme == <<"f", "i", "l", "e", ":", "/", "/">>

\* The offset at which ReadResource cuts the address: URI[7:].
SchemeLen == 7

UnsupportedPrefix ==
  <<"u", "n", "s", "u", "p", "p", "o", "r", "t", "e", "d", " ",
    "s", "c", "h", "e", "m", "e", ":", " ">>

MimeType == "text/markdown"

(***************************************************************************)
(* The served filesystem (an fs.FS): a tree of entries under the root.     *)
(* An entry is absent, a directory, or a file with its bytes; fault says   *)
(* which filesystem call on it fails.                                      *)
(***************************************************************************)
Root == <<".">>

\* A file whose name holds a percent sign that starts no escape.
P_pct == <<"%", "z", "z", ".", "m", "d">>

P_a == <<"a", ".", "m", "d">>

P_d == <<"d">>

P_db == <<"d", "/", "b", ".", "m", "d">>

P_dc == <<"d", "/", "c", ".", "t", "x", "t">>

P_e == <<"e", ".", "m", "d">>

P_ef == <<"e", ".", "m", "d", "/", "f", ".", "m", "d">>

\* A path no entry ever has.
P_n == <<"n", ".", "m", "d">>

\* Every entry name of the tree, in the order fs.ReadDir sorts names.
DirOrder == <<P_pct, P_a, P_d, P_db, P_dc, P_e, P_ef>>

Universe == {DirOrder[i] : i \in DOMAIN DirOrder}

\* The directory holding a path: path.Join(dir, name) = path.
Parent(path) ==
  LET sep == LastIndexOf(path, "/")
  IN IF sep = 0 THEN Root ELSE SubSeq(path, 1, sep - 1)

Absent == [kind |-> "none", Data |-> <<>>, fault |-> "none"]

Dir(fault) == [kind |-> "dir", Data |-> <<>>, fault |-> fault]

File(data, fault) == [kind |-> "file", Data |-> data, fault |-> fault]

Exists(f, name) == name \in DOMAIN f /\ f[name].kind # "none"

IsDir(f, name) == name = Root \/ (Exists(f, name) /\ f[name].kind = "dir")

\* fs.ReadFile
ReadFile(f, name) ==
  IF ~Exists(f, name) THEN [data |-> <<>>, err |-> ErrNotExist]
  ELSE IF f[name].kind = "dir" THEN [data |-> <<>>, err |-> ErrIsDir]
  ELSE IF f[name].fault = "read" THEN [data |-> <<>>, err |-> ErrPermission]
  ELSE [data |-> f[name].Data, err |-> NoErr]

\* fs.Stat and DirEntry.Info: the size of a file is the length of its bytes.
Stat(f, name) ==
  IF ~Exists(f, name) THEN [size |-> 0, err |-> ErrNotExist]
  ELSE IF f[name].fault = "stat" THEN [size |-> 0, err |-> ErrPermission]
  ELSE [size |-> Len(f[name].Data), err |-> NoErr]

RECURSIVE Select(_, _, _)
Select(f, dir, i) ==
  IF i > Len(DirOrder) THEN <<>>
  ELSE LET name == DirOrder[i]
       IN (IF Exists(f, name) /\ Parent(name) = dir THEN <<name>> ELSE <<>>)
          \o Select(f, dir, i + 1)

\* fs.ReadDir: the entries of a directory sorted by name, or an error.
ReadDir(f, dir) ==
  IF dir # Root /\ f[dir].fault = "readdir"
  THEN [entries |-> <<>>, err |-> ErrPermission]
  ELSE [entries |-> Select(f, dir, 1), err |-> NoErr]

(***************************************************************************)
(* The scan: markdownFiles, readMarkdownInfo and the fs.WalkDir they       *)
(* drive.  The walk threads a record st: the infos the consumer has got,   *)
(* the filesystem calls made, the error the last callback returned, and    *)
(* the paths the callback was called with.                                 *)
(***************************************************************************)
IoEvent(what, name) == [what |-> what, name |-> name]

\* The walk state on entry to the callback for path.
Called(st, path) == [st EXCEPT !.visited = Append(st.visited, path)]

NoInfo == [Path |-> <<>>, Size |-> 0, Frontmatter |-> NilMap]

\* Result: [info, err, io].
readMarkdownInfo(f, excl, path) ==
  Then(Stat(f, path), LAMBDA info :
    IF info.err # NoErr
    THEN [info |-> NoInfo, err |-> info.err, io |-> <<IoEvent("Info", path)>>]
    ELSE
      Then(ReadFile(f, path), LAMBDA content :
        IF content.err # NoErr
        THEN [info |-> NoInfo, err |-> content.err,
              io |-> <<IoEvent("Info", path), IoEvent("ReadFile", path)>>]
        ELSE
          Then(readFrontmatter(content.data, excl), LAMBDA fm :
            IF fm.err # NoErr
            THEN [info |-> NoInfo, err |-> fm.err,
                  io |-> <<IoEvent("Info", path), IoEvent("ReadFile", path),
                           IoEvent("readFrontmatter", path)>>]
            ELSE [info |-> [Path |-> path, Size |-> info.size,
                            Frontmatter |-> fm.v],
                  err |-> NoErr,
                  io |-> <<IoEvent("Info", path), IoEvent("ReadFile", path),
                           IoEvent("readFrontmatter", path)>>])))

\* A faulty variant of Yield: the callback goes on with the walk although
\* the consumer has stopped.
Yield_NeverStops(st, info, limit) ==
  [st EXCEPT !.files = Append(st.files, info), !.err = NoErr]

\* The consumer's yield: it takes the info and asks for more unless it has
\* now got `limit` of them (limit = -1: it never stops, as slices.Collect
\* and the range loop of listResourcesOption).
Yield(st, info, limit) ==
  LET got == Append(st.files, info)
  IN [st EXCEPT !.files = got,
                !.err = IF Len(got) = limit THEN SkipAll ELSE NoErr]

\* A faulty variant of WalkFn: the d.IsDir() test is missing, so a directory
\* named like a document is read as one.
WalkFn_NoDirCheck(f, excl, limit, path, err, st) ==
  IF err # NoErr THEN [Called(st, path) EXCEPT !.err = err]
  ELSE IF Ext(path) # MdExt THEN [Called(st, path) EXCEPT !.err = NoErr]
  ELSE Then(readMarkdownInfo(f, excl, path),
            LAMBDA r :
              IF r.err # NoErr
              THEN [Called(st, path) EXCEPT !.io = st.io \o r.io,
                                            !.err = r.err]
              ELSE Yield([Called(st, path) EXCEPT !.io = st.io \o r.io],
                         r.info, limit))

\* The callback markdownFiles hands to fs.WalkDir, called with (path, d, err).
WalkFn(f, excl, limit, path, err, st) ==
  IF err # NoErr THEN [Called(st, path) EXCEPT !.err = err]
  ELSE IF IsDir(f, path) THEN [Called(st, path) EXCEPT !.err = NoErr]
  ELSE IF Ext(path) # MdExt THEN [Called(st, path) EXCEPT !.err = NoErr]
  ELSE Then(readMarkdownInfo(f, excl, path),
            LAMBDA r :
              IF r.err # NoErr
              THEN [Called(st, path) EXCEPT !.io = st.io \o r.io,
                                            !.err = r.err]
              ELSE Yield([Called(st, path) EXCEPT !.io = st.io \o r.io],
                         r.info, limit))

RECURSIVE walkDir(_, _, _, _, _), walkEntries(_, _, _, _, _)
\* io/fs walkDir: the callback on the entry, then, for a directory, its
\* entries in name order; the first error ends the walk.
walkDir(f, excl, limit, name, st) ==
  Then(WalkFn(f, excl, limit, name, NoErr, st),
       LAMBDA st1 :
         IF st1.err # NoErr \/ ~IsDir(f, name) THEN st1
         ELSE Then(ReadDir(f, name),
                   LAMBDA dirs :
                     IF dirs.err # NoErr
                     THEN WalkFn(f, excl, limit, name, dirs.err, st1)
                     ELSE walkEntries(f, excl, limit, dirs.entries, st1)))

walkEntries(f, excl, limit, entries, st) ==
  IF entries = <<>> THEN st
  ELSE Then(walkDir(f, excl, limit, Head(entries), st),
            LAMBDA st1 :
              IF st1.err # NoErr THEN st1
              ELSE walkEntries(f, excl, limit, Tail(entries), st1))

\* fs.WalkDir(s.fs, ".", fn): SkipAll ends the walk and is not an error.
WalkDir(f, excl, limit) ==
  Then(walkDir(f, excl, limit, Root,
               [files |-> <<>>, io |-> <<>>, err |-> NoErr,
                visited |-> <<>>]),
       LAMBDA st : IF st.err = SkipAll THEN [st EXCEPT !.err = NoErr] ELSE st)

\* markdownFiles: the sequence the consumer receives.  The iterator drops
\* the error fs.WalkDir returns; walkErr keeps it for the record.
markdownFiles(f, excl, limit) ==
  Then(WalkDir(f, excl, limit), LAMBDA st :
    [files |-> st.files, io |-> st.io, walkErr |-> st.err,
     visited |-> st.visited])

(***************************************************************************)
(* The documents the files hold.  A document is described by its leading   *)
(* blank lines, its notation, the lines of its frontmatter block ("a" and  *)
(* "b" are key lines, "!" a malformed line, "" a blank line), whether the  *)
(* block is closed, and its body; Render gives its bytes.                  *)
(***************************************************************************)
Doc(pad, notation, lines, closed, body) ==
  [pad |-> pad, notation |-> notation, lines |-> lines, closed |-> closed,
   body |-> body]

RECURSIVE Pad(_)
Pad(n) == IF n = 0 THEN <<>> ELSE <<NL>> \o Pad(n - 1)

RECURSIVE RenderLines(_)
RenderLines(ls) ==
  IF ls = <<>> THEN <<>>
  ELSE (IF Head(ls) = "" THEN <<>> ELSE <<Head(ls)>>) \o <<NL>>
       \o RenderLines(Tail(ls))

DelimiterOf(notation) ==
  IF notation = "yaml" THEN YamlDelimiter ELSE TomlDelimiter

Render(d) ==
  IF d.notation = "none" THEN Pad(d.pad) \o d.body
  ELSE Pad(d.pad) \o DelimiterOf(d.notation) \o RenderLines(d.lines)
       \o (IF d.closed THEN DelimiterOf(d.notation) ELSE <<>>) \o d.body

Body == <<"x", NL>>

FileDocs ==
  {Doc(0, "none", <<>>, FALSE, <<>>), Doc(0, "none", <<>>, FALSE, Body),
   Doc(0, "yaml", <<"a">>, FALSE, Body)}
  \cup {Doc(p, "yaml", <<"a">>, TRUE, Body) : p \in 0..MaxPad}
  \cup {Doc(0, n, ls, TRUE, Body) :
          n \in {"yaml", "toml"}, ls \in {<<"a", "b">>, <<"">>, <<"!">>}}

FileStates ==
  {Absent} \cup {File(Render(d), "none") : d \in FileDocs}
  \cup {File(Render(Doc(0, "yaml", <<"a">>, TRUE, Body)), flt) :
          flt \in {"stat", "read"}}

ExcludeSets == {<<>>, <<"a">>, <<"a", "b">>}

(***************************************************************************)
(* The server.                                                             *)
(***************************************************************************)
NilResp == [isNil |-> TRUE]

NoCall == [op |-> "none", arg |-> <<>>, resp |-> NilResp, err |-> NoErr,
           walkErr |-> NoErr, io |-> <<>>]

NoServer == [state |-> "none", resources |-> <<>>, err |-> NoErr,
             walkErr |-> NoErr]

\* json.Marshal of a map[string]any: null for the nil map, else the
\* entries in key order.
RECURSIVE MarshalEntries(_, _, _)
MarshalEntries(m, i, first) ==
  IF i > Len(KeyOrder) THEN <<>>
  ELSE LET k == KeyOrder[i]
       IN IF k \in DOMAIN m
          THEN (IF first THEN <<>> ELSE <<",">>)
               \o <<"\"", k, "\"", ":", "1">>
               \o MarshalEntries(m, i + 1, FALSE)
          ELSE MarshalEntries(m, i + 1, first)

\* A faulty variant of Marshal: the nil map is written as an empty object.
Marshal_NilAsEmptyObject(v) ==
  IF v.isNil THEN <<"{", "}">>
  ELSE <<"{">> \o MarshalEntries(v.m, 1, TRUE) \o <<"}">>

Marshal(v) ==
  IF v.isNil THEN <<"n", "u", "l", "l">>
  ELSE <<"{">> \o MarshalEntries(v.m, 1, TRUE) \o <<"}">>

\* A faulty variant of Resource: the address is built from the file name
\* instead of the whole path.
Resource_BaseNameURI(info) ==
  [URI |-> FileScheme \o Base(info.Path),
   Name |-> Base(info.Path),
   Description |-> Marshal(info.Frontmatter),
   MimeType |-> MimeType,
   Size |-> info.Size]

\* mcp.Resource{...} of listResourcesOption.
Resource(info) ==
  [URI |-> FileScheme \o info.Path,
   Name |-> Base(info.Path),
   Description |-> Marshal(info.Frontmatter),
   MimeType |-> MimeType,
   Size |-> info.Size]

RECURSIVE Resources(_)
Resources(files) ==
  IF files = <<>> THEN <<>>
  ELSE <<Resource(Head(files))>> \o Resources(Tail(files))

\* listResourcesOption: one resource per info the scan yields.  The only
\* error it returns is json.Marshal's, which no decoded mapping raises.
listResourcesOption(f, excl) ==
  Then(markdownFiles(f, excl, -1), LAMBDA scan :
    [opts |-> Resources(scan.files), err |-> NoErr, walkErr |-> scan.walkErr])

\* Server.server: the resources, or the error of listResourcesOption.
server(f, excl) ==
  Then(listResourcesOption(f, excl), LAMBDA r :
    IF r.err # NoErr
    THEN [state |-> "failed", resources |-> <<>>, err |-> r.err,
          walkErr |-> r.walkErr]
    ELSE [state |-> "ok", resources |-> r.opts, err |-> NoErr,
          walkErr |-> r.walkErr])

\* New
New ==
  /\ srv.state = "none"
  /\ srv' = server(fsys, excludeFrontmatter)
  /\ UNCHANGED <<fsys, excludeFrontmatter, call>>

listMarkdownFilesResult(f, excl) ==
  Then(markdownFiles(f, excl, -1), LAMBDA scan :
    [op |-> "listMarkdownFiles", arg |-> <<>>,
     resp |-> [isNil |-> FALSE, Files |-> scan.files],
     err |-> NoErr, walkErr |-> scan.walkErr, io |-> scan.io])

\* A faulty variant of listMarkdownFiles: a constructed server rebuilds
\* its resources from the scan each list makes.
listMarkdownFiles_Refreshing ==
  /\ call' = listMarkdownFilesResult(fsys, excludeFrontmatter)
  /\ srv' = IF srv.state = "none" THEN srv
            ELSE server(fsys, excludeFrontmatter)
  /\ UNCHANGED <<fsys, excludeFrontmatter>>

listMarkdownFiles ==
  /\ call' = listMarkdownFilesResult(fsys, excludeFrontmatter)
  /\ UNCHANGED <<fsys, excludeFrontmatter, srv>>

\* A faulty variant of Failed: the error is replaced by a new one holding
\* only its text, which errors.Is no longer classifies.
Failed_Opaque(op, arg, err, io) ==
  [op |-> op, arg |-> arg, resp |-> NilResp, err |-> Err("opaque"),
   walkErr |-> NoErr, io |-> io]

\* return nil, err
Failed(op, arg, err, io) ==
  [op |-> op, arg |-> arg, resp |-> NilResp, err |-> err, walkErr |-> NoErr,
   io |-> io]

\* return &response, nil
Succeeded(op, arg, resp, io) ==
  [op |-> op, arg |-> arg, resp |-> resp, err |-> NoErr, walkErr |-> NoErr,
   io |-> io]

\* A faulty variant of readMarkdownFileResponse: the content returned is the
\* trimmed copy made for delimiter detection.
readMarkdownFileResponse_Trimmed(path, size, frontmatter, content) ==
  [isNil |-> FALSE, Path |-> path, Size |-> size, Frontmatter |-> frontmatter,
   Content |-> TrimSpace(content)]

\* &readMarkdownFileResponse{...}
readMarkdownFileResponse(path, size, frontmatter, content) ==
  [isNil |-> FALSE, Path |-> path, Size |-> size, Frontmatter |-> frontmatter,
   Content |-> content]

readMarkdownFileResult(f, excl, path) ==
  Then(ReadFile(f, path), LAMBDA content :
    IF content.err # NoErr
    THEN Failed("readMarkdownFile", path, content.err,
                <<IoEvent("ReadFile", path)>>)
    ELSE
      Then(Stat(f, path), LAMBDA info :
        IF info.err # NoErr
        THEN Failed("readMarkdownFile", path, info.err,
                    <<IoEvent("ReadFile", path), IoEvent("Stat", path)>>)
        ELSE
          Then(readFrontmatter(content.data, excl), LAMBDA fm :
            IF fm.err # NoErr
            THEN Failed("readMarkdownFile", path, fm.err,
                        <<IoEvent("ReadFile", path), IoEvent("Stat", path)>>)
            ELSE Succeeded("readMarkdownFile", path,
                           readMarkdownFileResponse(path, info.size, fm.v,
                                                    content.data),
                           <<IoEvent("ReadFile", path),
                             IoEvent("Stat", path)>>))))

RequestPaths == Universe \cup {P_n}

readMarkdownFile ==
  \E path \in RequestPaths :
    /\ call' = readMarkdownFileResult(fsys, excludeFrontmatter, path)
    /\ UNCHANGED <<fsys, excludeFrontmatter, srv>>

\* A faulty variant of UnsupportedScheme: the address is not appended.
UnsupportedScheme_NoURI(uri) ==
  [kind |-> "unsupported scheme", msg |-> UnsupportedPrefix]

\* errors.New("unsupported scheme: " + request.Params.URI)
UnsupportedScheme(uri) ==
  [kind |-> "unsupported scheme", msg |-> UnsupportedPrefix \o uri]

ReadResourceResult(f, uri) ==
  IF ~HasPrefix(uri, FileScheme)
  THEN Failed("ReadResource", uri, UnsupportedScheme(uri), <<>>)
  ELSE
    Then(ReadFile(f, SliceFrom(uri, SchemeLen)), LAMBDA content :
      IF content.err # NoErr
      THEN Failed("ReadResource", uri, content.err,
                  <<IoEvent("ReadFile", SliceFrom(uri, SchemeLen))>>)
      ELSE Succeeded("ReadResource", uri,
                     [isNil |-> FALSE,
                      Contents |-> <<[URI |-> uri, Text |-> content.data,
                                      MimeType |-> MimeType]>>],
                     <<IoEvent("ReadFile", SliceFrom(uri, SchemeLen))>>))

HttpScheme == <<"h", "t", "t", "p", ":", "/", "/">>

\* The address of the "Invalid URI" test.
InvalidURI == <<":", "i", "n", "v", "a", "l", "i", "d", ":">>

RequestURIs ==
  {FileScheme \o p : p \in RequestPaths}
  \cup {HttpScheme \o P_a, P_a, <<"f", "i", "l", "e", ":">> \o P_a,
        InvalidURI}

ReadResource ==
  \E uri \in RequestURIs :
    /\ call' = ReadResourceResult(fsys, uri)
    /\ UNCHANGED <<fsys, excludeFrontmatter, srv>>

\* The tree: %zz.md, a.md, d/ (b.md, c.txt), e.md/ (f.md).
MkFs(a, d, db) ==
  (P_pct :> File(Body, "none"))
  @@ (P_a :> a) @@ (P_d :> d) @@ (P_db :> db)
  @@ (P_dc :> File(Render(Doc(0, "yaml", <<"b">>, TRUE, Body)), "none"))
  @@ (P_e :> Dir("none")) @@ (P_ef :> File(Body, "none"))

Init ==
  /\ \E a \in FileStates, db \in FileStates,
        d \in {Dir("none"), Dir("readdir")} :
       fsys = MkFs(a, d, db)
  /\ excludeFrontmatter \in ExcludeSets
  /\ srv = NoServer
  /\ call = NoCall

Next == New \/ listMarkdownFiles \/ readMarkdownFile \/ ReadResource

Spec == Init /\ [][Next]_vars

(***************************************************************************)
(* The tree behind the fs.FS handle is live: files come, go and are        *)
(* rewritten by others while the server runs.  SpecChanging lets a.md and  *)
(* d/b.md change between the operations.                                   *)
(***************************************************************************)
ChangingStates ==
  {Absent} \cup {File(Render(Doc(0, "yaml", ls, TRUE, Body)), "none") :
                   ls \in {<<"a">>, <<"a", "b">>}}

FsChange ==
  \E p \in {P_a, P_db}, to \in ChangingStates :
    /\ fsys[p] # to
    /\ fsys' = [fsys EXCEPT ![p] = to]
    /\ UNCHANGED <<excludeFrontmatter, srv, call>>

InitChanging ==
  /\ \E a \in ChangingStates, db \in ChangingStates :
       fsys = MkFs(a, Dir("none"), db)
  /\ excludeFrontmatter \in {<<>>, <<"a">>}
  /\ srv = NoServer
  /\ call = NoCall

NextChanging ==
  New \/ listMarkdownFiles \/ readMarkdownFile \/ ReadResource \/ FsChange

SpecChanging == InitChanging /\ [][NextChanging]_vars

(***************************************************************************)
(* A consumer of markdownFiles that ranges over the sequence and breaks    *)
(* out of the loop once it has got limit infos, as the range loop of       *)
(* listResourcesOption does when it returns from inside the loop.          *)
(***************************************************************************)
MaxTake == 3

rangeMarkdownFilesResult(f, excl, limit) ==
  Then(markdownFiles(f, excl, limit), LAMBDA scan :
    [op |-> "markdownFiles", arg |-> <<>>,
     resp |-> [isNil |-> FALSE, Files |-> scan.files, Limit |-> limit,
               Visited |-> scan.visited],
     err |-> NoErr, walkErr |-> scan.walkErr, io |-> scan.io])

rangeMarkdownFiles ==
  \E limit \in 1..MaxTake :
    /\ call' = rangeMarkdownFilesResult(fsys, excludeFrontmatter, limit)
    /\ UNCHANGED <<fsys, excludeFrontmatter, srv>>

NextScan == rangeMarkdownFiles

SpecScan == Init /\ [][NextScan]_vars

(***************************************************************************)
(* readFrontmatter on its own, as Test_server_readFrontmatter calls it:    *)
(* the contents are the renderings of the documents below, with and        *)
(* without a closing delimiter, a body, and a body that holds a later      *)
(* delimiter line.  SpecExtract also runs the readFrontmatter of package   *)
(* server on the same contents.                                            *)
(***************************************************************************)
BlockLines ==
  {<<>>, <<"a">>, <<"a", "b">>, <<"">>, <<"!">>, <<"a", "b", "">>}

\* A body with a line of its own and then a line that looks like the
\* delimiter of the notation.
LaterDelimiterBody(notation) == <<"b", NL>> \o DelimiterOf(notation) \o Body

ExtractDocs ==
  UNION {{Doc(p, n, ls, c, b) :
            p \in 0..MaxPad, ls \in BlockLines, c \in BOOLEAN,
            b \in {<<>>, Body, LaterDelimiterBody(n)}} :
         n \in {"yaml", "toml"}}
  \cup {Doc(p, "none", <<>>, FALSE, b) :
          p \in 0..MaxPad, b \in {<<>>, Body, LaterDelimiterBody("yaml")}}

Contents == {Render(d) : d \in ExtractDocs}

readFrontmatterResult(content, excl) ==
  Then(readFrontmatter(content, excl), LAMBDA r :
    [op |-> "readFrontmatter", arg |-> content,
     resp |-> [isNil |-> FALSE, Frontmatter |-> r.v, Decoders |-> r.decoders],
     err |-> r.err, walkErr |-> NoErr, io |-> <<>>])

Test_server_readFrontmatter ==
  \E content \in Contents :
    /\ call' = readFrontmatterResult(content, excludeFrontmatter)
    /\ UNCHANGED <<fsys, excludeFrontmatter, srv>>

server_readFrontmatterResult(content) ==
  Then(server_readFrontmatter(content), LAMBDA r :
    [op |-> "server.readFrontmatter", arg |-> content,
     resp |-> [isNil |-> FALSE, Frontmatter |-> r.v, Decoders |-> r.decoders],
     err |-> r.err, walkErr |-> NoErr, io |-> <<>>])

server_readFrontmatterCall ==
  \E content \in Contents :
    /\ call' = server_readFrontmatterResult(content)
    /\ UNCHANGED <<fsys, excludeFrontmatter, srv>>

InitExtract ==
  /\ fsys = MkFs(Absent, Dir("none"), Absent)
  /\ excludeFrontmatter \in ExcludeSets
  /\ srv = NoServer
  /\ call = NoCall

NextExtract == Test_server_readFrontmatter \/ server_readFrontmatterCall

SpecExtract == InitExtract /\ [][NextExtract]_vars

(***************************************************************************)
(* Vocabulary of the properties.                                           *)
(***************************************************************************)
EndsWith(s, suffix) ==
  Len(s) >= Len(suffix) /\ SubSeq(s, Len(s) - Len(suffix) + 1, Len(s)) = suffix

\* The non-directory entries of the tree whose name ends in .md.
MdFiles(f) == {p \in Universe : f[p].kind = "file" /\ EndsWith(p, MdExt)}

\* No filesystem call fails on any entry and no file holds a malformed line.
AllFine(f) ==
  \A p \in Universe :
    /\ f[p].fault = "none"
    /\ f[p].kind = "file" => "!" \notin Chars(f[p].Data)

PathsOf(files) == {files[i].Path : i \in DOMAIN files}

AddressesOf(resources) == {resources[i].URI : i \in DOMAIN resources}

PathOfAddress(uri) == SubSeq(uri, Len(FileScheme) + 1, Len(uri))

Excluded == Chars(excludeFrontmatter)

NilOrNonEmpty(v) == IF v.isNil THEN DOMAIN v.m = {} ELSE DOMAIN v.m # {}

\* The bytes are a closed frontmatter block, followed by a body, that has
\* no malformed line and no key outside the excluded ones.
EmptiesOut(data, excl) ==
  \E d \in FileDocs :
    /\ Render(d) = data
    /\ d.notation # "none" /\ d.closed /\ d.lines # <<>>
    /\ "!" \notin Chars(d.lines)
    /\ (Chars(d.lines) \cap FrontmatterKeys) \subseteq Chars(excl)

\* name is the final slash-separated segment of path.
LastSegmentOf(name, path) ==
  /\ "/" \notin Chars(name)
  /\ \/ path = name
     \/ /\ Len(path) > Len(name)
        /\ EndsWith(path, <<"/">> \o name)

JsonNull == <<"n", "u", "l", "l">>

\* The compact JSON text of each mapping a document of the tree can have.
ExpectedJSON(v) ==
  IF v.isNil THEN JsonNull
  ELSE IF DOMAIN v.m = {"a"} THEN <<"{", "\"", "a", "\"", ":", "1", "}">>
  ELSE IF DOMAIN v.m = {"b"} THEN <<"{", "\"", "b", "\"", ":", "1", "}">>
  ELSE IF DOMAIN v.m = {"a", "b"}
  THEN <<"{", "\"", "a", "\"", ":", "1", ",", "\"", "b", "\"", ":", "1", "}">>
  ELSE <<"{", "}">>

\* The scheme of an address: what precedes its first colon.
SchemeOf(uri) ==
  IF Index(uri, <<":">>) = -1 THEN <<>> ELSE Slice(uri, 0, Index(uri, <<":">>))

IsList == call.op = "listMarkdownFiles"

IsRead == call.op = "readMarkdownFile"

IsReadResource == call.op = "ReadResource"

IsExtract == call.op = "readFrontmatter"

IsRange == call.op = "markdownFiles"

IsPrefixOf(s, t) == Len(s) <= Len(t) /\ s = SubSeq(t, 1, Len(s))

\* After the opening delimiter line of the document there is a newline
\* followed by the three delimiter characters: the one that ends its last
\* block line, or the one before the delimiter line in its body.
HasClose(d) ==
  /\ d.notation # "none" /\ d.lines # <<>>
  /\ d.closed \/ d.body = LaterDelimiterBody(d.notation)

\* The lines between the opening delimiter line and the first close.
FirstBlock(d) == IF d.closed THEN d.lines ELSE d.lines \o <<"b">>

\* What decoding those lines gives: an error for a malformed line, else
\* one entry per key line that is not excluded, nil when there is none.
ExpectedOf(d, excl) ==
  IF "!" \in Chars(FirstBlock(d)) THEN [v |-> NilMap, err |-> DecodeError]
  ELSE LET ks == (Chars(FirstBlock(d)) \cap FrontmatterKeys) \ Chars(excl)
           fam == IF d.notation = "yaml" THEN "uint64" ELSE "int64"
       IN [v |-> IF ks = {} THEN NilMap
                 ELSE MakeMap([k \in ks |-> [fam |-> fam, n |-> 1]]),
           err |-> NoErr]

\* The document has no opening delimiter line, or has one and no delimiter
\* after it.
NoMatch(d) ==
  \/ d.notation = "none"
  \/ d.notation # "none" /\ ~d.closed /\ d.lines # <<>>
     /\ d.body # LaterDelimiterBody(d.notation)

RECURSIVE RunsOf(_)
\* Every run of at most n whitespace characters.
RunsOf(n) ==
  IF n = 0 THEN {<<>>}
  ELSE RunsOf(n - 1)
       \cup {<<w>> \o r : w \in Whitespace, r \in RunsOf(n - 1)}

PadRuns == RunsOf(MaxPad)

HexDigits ==
  {"0", "1", "2", "3", "4", "5", "6", "7", "8", "9",
   "a", "b", "c", "d", "e", "f", "A", "B", "C", "D", "E", "F"}

\* The address obeys the URI syntax as net/url's Parse enforces it on the
\* characters the addresses here are made of: no control character, no
\* colon in front of a scheme, and every percent sign followed by two
\* hexadecimal digits.
Parseable(uri) ==
  /\ NL \notin Chars(uri)
  /\ uri # <<>> => Head(uri) # ":"
  /\ \A i \in DOMAIN uri :
       uri[i] = "%" =>
         /\ i + 2 <= Len(uri)
         /\ uri[i + 1] \in HexDigits /\ uri[i + 2] \in HexDigits

(***************************************************************************)
(* The properties.                                                         *)
(***************************************************************************)

\* C1: when the scan meets a failure on a file (stat, read or decode),
\* listMarkdownFiles returns that error and returns no list.
C1_ScanErrorPropagated ==
  (IsList /\ call.walkErr # NoErr) =>
    (call.err = call.walkErr /\ call.resp.isNil)

\* C2: when the catalog build meets a failure on a file, New returns no
\* server: a server is constructed only from a scan that ran to its end.
C2_NoServerOnScanError ==
  srv.walkErr # NoErr => (srv.state = "failed" /\ srv.resources = <<>>)

\* C3: in a tree where every entry is readable and decodable, the list of
\* listMarkdownFiles and the catalog of New hold exactly one descriptor per
\* non-directory entry named *.md, at any depth, each with the byte size of
\* its file.
C3_ExactlyTheMarkdownFiles ==
  /\ (IsList /\ AllFine(fsys)) =>
       /\ call.err = NoErr /\ ~call.resp.isNil
       /\ PathsOf(call.resp.Files) = MdFiles(fsys)
       /\ Len(call.resp.Files) = Cardinality(MdFiles(fsys))
       /\ \A i \in DOMAIN call.resp.Files :
            call.resp.Files[i].Size = Len(fsys[call.resp.Files[i].Path].Data)
  /\ (srv.state # "none" /\ AllFine(fsys)) =>
       /\ srv.state = "ok"
       /\ AddressesOf(srv.resources) = {FileScheme \o p : p \in MdFiles(fsys)}
       /\ Len(srv.resources) = Cardinality(MdFiles(fsys))
       /\ \A i \in DOMAIN srv.resources :
            srv.resources[i].Size
              = Len(fsys[PathOfAddress(srv.resources[i].URI)].Data)

\* C3 witness: a list of four documents from a healthy tree that also
\* holds a directory named e.md and a file c.txt.
C3_Witness ==
  /\ IsList /\ AllFine(fsys)
  /\ Len(call.resp.Files) = 4
  /\ fsys[P_e].kind = "dir" /\ fsys[P_dc].kind = "file"
  /\ P_ef \in PathsOf(call.resp.Files)

\* C4: no excluded key is a key of any frontmatter mapping that
\* listMarkdownFiles or readMarkdownFile returns, nor appears in the JSON
\* description of any declared resource.
C4_ExcludedKeysNeverEmitted ==
  /\ IsList =>
       \A i \in DOMAIN call.resp.Files :
         DOMAIN call.resp.Files[i].Frontmatter.m \cap Excluded = {}
  /\ (IsRead /\ ~call.resp.isNil) =>
       DOMAIN call.resp.Frontmatter.m \cap Excluded = {}
  /\ \A i \in DOMAIN srv.resources :
       Chars(srv.resources[i].Description) \cap Excluded = {}

\* C4 witness: a file whose block defines a and b, read with a excluded,
\* comes back with b alone.
C4_Witness ==
  /\ IsRead /\ ~call.resp.isNil
  /\ excludeFrontmatter = <<"a">>
  /\ fsys[call.arg].Data = Render(Doc(0, "yaml", <<"a", "b">>, TRUE, Body))
  /\ DOMAIN call.resp.Frontmatter.m = {"b"}

\* C5: every frontmatter in a list or read response is nil or a mapping
\* with at least one entry; a block that decodes to an empty mapping, or
\* whose keys are all excluded, is read without error as nil.
C5_NilOrNonEmptyFrontmatter ==
  /\ IsList =>
       \A i \in DOMAIN call.resp.Files :
         NilOrNonEmpty(call.resp.Files[i].Frontmatter)
  /\ (IsRead /\ ~call.resp.isNil) => NilOrNonEmpty(call.resp.Frontmatter)
  /\ (/\ IsRead /\ Exists(fsys, call.arg)
      /\ fsys[call.arg].kind = "file" /\ fsys[call.arg].fault = "none"
      /\ EmptiesOut(fsys[call.arg].Data, excludeFrontmatter)) =>
       /\ call.err = NoErr /\ ~call.resp.isNil
       /\ call.resp.Frontmatter.isNil

\* C5 witness: one list holding a file whose two keys are both excluded
\* and a file whose block is a single blank line, both with nil frontmatter.
C5_Witness ==
  /\ IsList /\ excludeFrontmatter = <<"a", "b">>
  /\ \E i, j \in DOMAIN call.resp.Files :
       /\ fsys[call.resp.Files[i].Path].Data
            = Render(Doc(0, "yaml", <<"a", "b">>, TRUE, Body))
       /\ call.resp.Files[i].Frontmatter.isNil
       /\ fsys[call.resp.Files[j].Path].Data
            = Render(Doc(0, "toml", <<"">>, TRUE, Body))
       /\ call.resp.Files[j].Frontmatter.isNil

\* C6: a successful readMarkdownFile returns the requested path, the byte
\* size of the file and the file's bytes unchanged, and it succeeds on every
\* readable file without a malformed block: with frontmatter, without, empty.
C6_ReadReturnsFileVerbatim ==
  /\ (IsRead /\ ~call.resp.isNil) =>
       /\ call.err = NoErr
       /\ call.resp.Path = call.arg
       /\ Exists(fsys, call.arg) /\ fsys[call.arg].kind = "file"
       /\ call.resp.Size = Len(fsys[call.arg].Data)
       /\ call.resp.Content = fsys[call.arg].Data
  /\ (/\ IsRead /\ Exists(fsys, call.arg)
      /\ fsys[call.arg].kind = "file" /\ fsys[call.arg].fault = "none"
      /\ "!" \notin Chars(fsys[call.arg].Data)) => ~call.resp.isNil

\* C6 witness: a read of a document with a blank line before its block and
\* a newline at its end, frontmatter found, content returned with both.
C6_Witness ==
  /\ IsRead /\ ~call.resp.isNil
  /\ ~call.resp.Frontmatter.isNil
  /\ Head(call.resp.Content) = NL
  /\ call.resp.Content[Len(call.resp.Content)] = NL
  /\ call.resp.Size = Len(TrimSpace(call.resp.Content)) + 2

\* C7: the address of every declared resource is file:// joined directly
\* with the path of a document of the tree, and ReadResource on that address
\* succeeds with that file's bytes as text, the same address and the media
\* type text/markdown (the tree being as it was at construction).
C7_AddressRoundTrip ==
  /\ srv.state = "ok" =>
       \A i \in DOMAIN srv.resources :
         \E p \in MdFiles(fsys) : srv.resources[i].URI = FileScheme \o p
  /\ (IsReadResource /\ srv.state = "ok"
      /\ call.arg \in AddressesOf(srv.resources)) =>
       /\ call.err = NoErr /\ ~call.resp.isNil
       /\ call.resp.Contents
            = <<[URI |-> call.arg,
                 Text |-> fsys[PathOfAddress(call.arg)].Data,
                 MimeType |-> "text/markdown"]>>

\* C7 witness: the declared address of d/b.md read back.
C7_Witness ==
  /\ IsReadResource /\ srv.state = "ok"
  /\ call.arg = FileScheme \o P_db
  /\ call.arg \in AddressesOf(srv.resources)
  /\ ~call.resp.isNil
  /\ call.resp.Contents[1].Text # <<>>

\* C8: every declared resource has the final segment of its document's
\* path as name, media type text/markdown, the document's byte size as
\* size, and as description the compact JSON of the frontmatter a read of
\* that document returns (after exclusion), null when it is absent.
C8_ResourceFields ==
  srv.state = "ok" =>
    \A i \in DOMAIN srv.resources :
      /\ Exists(fsys, PathOfAddress(srv.resources[i].URI))
      /\ LastSegmentOf(srv.resources[i].Name,
                       PathOfAddress(srv.resources[i].URI))
      /\ srv.resources[i].MimeType = "text/markdown"
      /\ srv.resources[i].Size
           = Len(fsys[PathOfAddress(srv.resources[i].URI)].Data)
      /\ (/\ IsRead /\ ~call.resp.isNil
          /\ call.arg = PathOfAddress(srv.resources[i].URI)) =>
           /\ srv.resources[i].Description = ExpectedJSON(call.resp.Frontmatter)
           /\ srv.resources[i].Size = call.resp.Size

\* C8 witness: the resource of d/b.md, whose block defines a and b, with a
\* excluded: name b.md, description {"b":1}; beside it a resource whose
\* description is null.
C8_Witness ==
  /\ srv.state = "ok" /\ IsRead /\ ~call.resp.isNil
  /\ call.arg = P_db /\ excludeFrontmatter = <<"a">>
  /\ \E i, j \in DOMAIN srv.resources :
       /\ srv.resources[i].URI = FileScheme \o P_db
       /\ srv.resources[i].Name = <<"b", ".", "m", "d">>
       /\ srv.resources[i].Description
            = <<"{", "\"", "b", "\"", ":", "1", "}">>
       /\ srv.resources[j].Description = JsonNull

\* C9: readMarkdownFile on a path, and ReadResource on a file:// address,
\* that names no entry of the tree return no response and the not-found
\* error; no other failure of theirs is classified not-found.
C9_NotFound ==
  /\ (IsRead /\ ~Exists(fsys, call.arg)) =>
       (call.resp.isNil /\ call.err = ErrNotExist)
  /\ (IsReadResource /\ HasPrefix(call.arg, FileScheme)
      /\ ~Exists(fsys, PathOfAddress(call.arg))) =>
       (call.resp.isNil /\ call.err = ErrNotExist)
  /\ (IsRead /\ Exists(fsys, call.arg)) => call.err.kind # "ErrNotExist"
  /\ (IsReadResource /\ HasPrefix(call.arg, FileScheme)
      /\ Exists(fsys, PathOfAddress(call.arg))) =>
       call.err.kind # "ErrNotExist"

\* C9 witness: ReadResource on the address of a file that was never there,
\* in a tree where another read fails for another reason.
C9_Witness ==
  /\ IsReadResource /\ call.arg = FileScheme \o P_n
  /\ call.err = ErrNotExist /\ call.resp.isNil
  /\ fsys[P_a].fault = "read"

\* C10: ReadResource on an address whose scheme is not file reads no file
\* and returns the unsupported-scheme error, whose message names the scheme
\* right after "unsupported scheme: ".
C10_UnsupportedScheme ==
  (IsReadResource /\ SchemeOf(call.arg) # <<"f", "i", "l", "e">>) =>
    /\ call.io = <<>> /\ call.resp.isNil
    /\ call.err.kind = "unsupported scheme"
    /\ HasPrefix(call.err.msg, UnsupportedPrefix)
    /\ HasPrefix(SliceFrom(call.err.msg, Len(UnsupportedPrefix)),
                 SchemeOf(call.arg))

\* C10 witness: the address http://a.md, while a.md is a readable file.
C10_Witness ==
  /\ IsReadResource /\ call.arg = HttpScheme \o P_a
  /\ SchemeOf(call.arg) = <<"h", "t", "t", "p">>
  /\ call.err.kind = "unsupported scheme"
  /\ fsys[P_a].kind = "file" /\ fsys[P_a].fault = "none"

\* C11: ReadResource on an address that the URI syntax does not admit
\* returns an error and no contents, whatever files the tree holds.
C11_UnparseableAddressFails ==
  (IsReadResource /\ ~Parseable(call.arg)) =>
    (call.err # NoErr /\ call.resp.isNil)

\* C12: once New has run, no step changes the server: its declared
\* resources stay what the scan at construction made them, through every
\* later change of the tree and every list, read and ReadResource; the
\* excluded keys never change; and no operation of the server changes the
\* tree.
C12_CatalogFixedAtConstruction ==
  [][/\ srv.state # "none" => srv' = srv
     /\ excludeFrontmatter' = excludeFrontmatter
     /\ (call' # call \/ srv' # srv) => fsys' = fsys]_vars

\* C12 witness: a server whose declared addresses are no longer the
\* documents of the tree, beside a list, made after the change, that is.
C12_Witness ==
  /\ srv.state = "ok" /\ IsList
  /\ PathsOf(call.resp.Files) = MdFiles(fsys)
  /\ AddressesOf(srv.resources) # {FileScheme \o p : p \in MdFiles(fsys)}
  /\ FileScheme \o P_a \in AddressesOf(srv.resources)
  /\ ~Exists(fsys, P_a)

\* C13: for every content whose trimmed form starts with the opening
\* delimiter line of a notation and holds, after it, a newline followed by
\* the same three delimiter characters, readFrontmatter returns what
\* decoding the text between the opening line and the first such close
\* gives, whatever follows that close.
C13_DecodesFirstBlock ==
  IsExtract =>
    \A d \in ExtractDocs :
      (Render(d) = call.arg /\ HasClose(d)) =>
        /\ call.err = ExpectedOf(d, excludeFrontmatter).err
        /\ call.resp.Frontmatter = ExpectedOf(d, excludeFrontmatter).v

\* C14: extraction gives the same mapping and the same error (a panic of
\* a slice expression being one) when a run of whitespace is put before the
\* content, after it, or both.  This is said of the readFrontmatter of
\* package mcpmds and of the one of package server.
C14_PaddingInvariant ==
  /\ IsExtract =>
       \A pre \in PadRuns, post \in PadRuns :
         /\ readFrontmatter(pre \o call.arg \o post, excludeFrontmatter).v
              = call.resp.Frontmatter
         /\ readFrontmatter(pre \o call.arg \o post, excludeFrontmatter).err
              = call.err
  /\ call.op = "server.readFrontmatter" =>
       \A pre \in PadRuns, post \in PadRuns :
         /\ server_readFrontmatter(pre \o call.arg \o post).v
              = call.resp.Frontmatter
         /\ server_readFrontmatter(pre \o call.arg \o post).err = call.err

\* The same of the readFrontmatter of package mcpmds alone.
PaddingInvariant_mcpmds ==
  IsExtract =>
    \A pre \in PadRuns, post \in PadRuns :
      /\ readFrontmatter(pre \o call.arg \o post, excludeFrontmatter).v
           = call.resp.Frontmatter
      /\ readFrontmatter(pre \o call.arg \o post, excludeFrontmatter).err
           = call.err

\* C15: when the content has an opening and a closing delimiter of a
\* notation and a malformed line between them, readFrontmatter returns the
\* decode error and a nil map, having run the decoder of that notation and
\* no other.
C15_DecodeErrorReturned ==
  IsExtract =>
    \A d \in ExtractDocs :
      (Render(d) = call.arg /\ HasClose(d) /\ "!" \in Chars(FirstBlock(d))) =>
        /\ call.err = DecodeError
        /\ call.resp.Frontmatter = NilMap
        /\ call.resp.Decoders = <<d.notation>>

\* C16: for the empty content, a content whose trimmed form starts with
\* neither opening delimiter line, and one that starts with an opening
\* delimiter line with no delimiter after it, readFrontmatter returns the
\* nil map and no error and runs no decoder.
C16_NoMatchIsNil ==
  IsExtract =>
    \A d \in ExtractDocs :
      (Render(d) = call.arg /\ NoMatch(d)) =>
        /\ call.err = NoErr
        /\ call.resp.Frontmatter = NilMap
        /\ call.resp.Decoders = <<>>

\* C16 witness: the three cases: the empty content; a body that holds a
\* delimiter line further down; an opened block that is never closed.
C16_Witness ==
  /\ IsExtract /\ call.err = NoErr /\ call.resp.Frontmatter.isNil
  /\ call.resp.Decoders = <<>>
  /\ call.arg \in {<<>>, LaterDelimiterBody("yaml"),
                    Render(Doc(0, "toml", <<"a", "b">>, FALSE, Body))}

\* C17: a consumer that stops after limit infos has got no more than
\* limit, and what it got is a prefix of what the whole scan yields; when
\* it did stop, the walk ended without an error, the last call of the
\* callback was the one for the last info yielded, and the last filesystem
\* call and decode were those of that file: the calls made are a prefix of
\* those of the whole scan.
C17_EarlyStopEndsWalk ==
  IsRange =>
    /\ Len(call.resp.Files) <= call.resp.Limit
    /\ IsPrefixOf(call.resp.Files,
                  markdownFiles(fsys, excludeFrontmatter, -1).files)
    /\ Len(call.resp.Files) = call.resp.Limit =>
         /\ call.err = NoErr /\ call.walkErr = NoErr
         /\ call.resp.Visited[Len(call.resp.Visited)]
              = call.resp.Files[call.resp.Limit].Path
         /\ call.io[Len(call.io)].name = call.resp.Files[call.resp.Limit].Path
         /\ IsPrefixOf(call.resp.Visited,
                       markdownFiles(fsys, excludeFrontmatter, -1).visited)
         /\ IsPrefixOf(call.io,
                       markdownFiles(fsys, excludeFrontmatter, -1).io)

\* C17 witness: the consumer stops at a.md, the second document, while
\* d/b.md, further on, is a file that cannot be read: the walk ends with
\* three callback calls (the root, %zz.md, a.md) and no error.
C17_Witness ==
  /\ IsRange /\ call.resp.Limit = 2 /\ Len(call.resp.Files) = 2
  /\ call.resp.Files[2].Path = P_a
  /\ fsys[P_db].fault = "read"
  /\ call.walkErr = NoErr
  /\ Len(call.resp.Visited) = 3
====
